---- MODULE Spec2Model ----
(***************************************************************************)
(* Model of DataJarvis/download_images.py: extraction of the PNG image     *)
(* URLs of an HTML document, download of each one with a fallback over     *)
(* three request configurations, and in-place rewriting of the document    *)
(* with a backup of the original.                                          *)
(*                                                                         *)
(* Text (documents, URLs, file names) is modelled by TLA+ strings, on      *)
(* which TLC evaluates Len, SubSeq and \o character by character.          *)
(***************************************************************************)
EXTENDS Integers, Sequences, FiniteSets, TLC

(***************************************************************************)
(* String primitives (Python str operations used by the program).          *)
(***************************************************************************)

\* s[i-1] in Python: the i-th character of s, as a one-character string.
Ch(s, i) == SubSeq(s, i, i)

\* s.startswith(p, i-1): p occurs in s at position i.
StartsAt(s, i, p) ==
    /\ i >= 1
    /\ i + Len(p) - 1 <= Len(s)
    /\ SubSeq(s, i, i + Len(p) - 1) = p

\* p in s
Contains(s, p) == \E i \in 1..(Len(s) + 1) : StartsAt(s, i, p)

\* s.endswith(p)
EndsWith(s, p) == Len(p) <= Len(s) /\ StartsAt(s, Len(s) - Len(p) + 1, p)

\* s[i-1:]
From(s, i) == SubSeq(s, i, Len(s))

\* s.find(c) + 1 for a one-character c, 0 when c does not occur.
RECURSIVE FindFrom(_, _, _)
FindFrom(s, c, i) ==
    IF i > Len(s) THEN 0 ELSE IF Ch(s, i) = c THEN i ELSE FindFrom(s, c, i + 1)

Find(s, c) == FindFrom(s, c, 1)

\* s.rfind(c) + 1
RECURSIVE RFindFrom(_, _, _)
RFindFrom(s, c, i) ==
    IF i < 1 THEN 0 ELSE IF Ch(s, i) = c THEN i ELSE RFindFrom(s, c, i - 1)

RFind(s, c) == RFindFrom(s, c, Len(s))

UpperAlpha == "ABCDEFGHIJKLMNOPQRSTUVWXYZ"
LowerAlpha == "abcdefghijklmnopqrstuvwxyz"
Digits == "0123456789"

Chars(s) == {Ch(s, i) : i \in 1..Len(s)}

UpperChars == Chars(UpperAlpha)

LowerCh(c) == IF c \in UpperChars THEN Ch(LowerAlpha, Find(UpperAlpha, c)) ELSE c

\* s.lower()
RECURSIVE Lower(_)
Lower(s) == IF s = "" THEN "" ELSE LowerCh(Ch(s, 1)) \o Lower(From(s, 2))

\* s.replace(old, new) for a non-empty old: one left-to-right pass over
\* non-overlapping occurrences; the inserted text is not rescanned.
RECURSIVE ReplaceFrom(_, _, _, _)
ReplaceFrom(s, i, old, new) ==
    IF i > Len(s) THEN ""
    ELSE IF StartsAt(s, i, old)
         THEN new \o ReplaceFrom(s, i + Len(old), old, new)
         ELSE Ch(s, i) \o ReplaceFrom(s, i + 1, old, new)

StrReplace(s, old, new) == ReplaceFrom(s, 1, old, new)

\* str(n) for an integer n.
RECURSIVE NatToStr(_)
NatToStr(n) ==
    IF n < 10 THEN Ch(Digits, n + 1)
    ELSE NatToStr(n \div 10) \o Ch(Digits, (n % 10) + 1)

IntToStr(n) == IF n < 0 THEN "-" \o NatToStr(0 - n) ELSE NatToStr(n)


(***************************************************************************)
(* extract_image_urls: re.findall of                                       *)
(*     <img[^>]+src=["\']([^"\']+)["\'][^>]*>                               *)
(* followed by the PNG filter.                                             *)
(***************************************************************************)

QuoteChars == {"\"", "'"}

\* Length of the longest run of characters not in stop, starting at s[i].
RECURSIVE RunLen(_, _, _)
RunLen(s, i, stop) ==
    IF i > Len(s) \/ Ch(s, i) \in stop THEN 0 ELSE 1 + RunLen(s, i + 1, stop)

NoMatch == [ok |-> FALSE, group |-> "", end |-> 0]

\* The part of the pattern after <img[^>]+ , tried at position q:
\*     src=["\']([^"\']+)["\'][^>]*>
\* Both greedy runs can only stop at their full length, because the
\* character that must follow each of them is excluded from the run.
SrcMatchAt(s, q) ==
    LET m == RunLen(s, q + 5, QuoteChars)
        r == q + 5 + m + 1
        n == RunLen(s, r, {">"})
    IN  IF /\ StartsAt(s, q, "src=")
           /\ q + 4 <= Len(s)
           /\ Ch(s, q + 4) \in QuoteChars
           /\ m >= 1
           /\ q + 5 + m <= Len(s)
           /\ r + n <= Len(s)
        THEN [ok |-> TRUE, group |-> SubSeq(s, q + 5, q + 5 + m - 1), end |-> r + n + 1]
        ELSE NoMatch

\* A match of the whole pattern starting at position p. The greedy [^>]+
\* is given back one character at a time, so the match uses the last
\* position inside the tag at which the rest of the pattern matches.
ImgMatchAt(s, p) ==
    LET g == p + 4
        l == RunLen(s, g, {">"})
        ks == {k \in 1..l : SrcMatchAt(s, g + k).ok}
    IN  IF StartsAt(s, p, "<img") /\ ks # {}
        THEN SrcMatchAt(s, g + (CHOOSE k \in ks : \A j \in ks : j <= k))
        ELSE NoMatch

\* re.findall(img_pattern, content): the groups of the non-overlapping
\* matches, scanning from the left.
RECURSIVE FindAllFrom(_, _)
FindAllFrom(s, p) ==
    IF p > Len(s) THEN << >>
    ELSE LET m == ImgMatchAt(s, p)
         IN  IF m.ok THEN <<m.group>> \o FindAllFrom(s, m.end)
             ELSE FindAllFrom(s, p + 1)

\* url.endswith('.png') or 'png' in url.lower()
IsPngUrl(url) == EndsWith(url, ".png") \/ Contains(Lower(url), "png")

\* SelectSeq with an operator argument, kept first-order for recursion.
RECURSIVE FilterPng(_)
FilterPng(urls) ==
    IF urls = << >> THEN << >>
    ELSE (IF IsPngUrl(Head(urls)) THEN <<Head(urls)>> ELSE << >>) \o FilterPng(Tail(urls))

extract_image_urls(content) == FilterPng(FindAllFrom(content, 1))

(***************************************************************************)
(* File name derivation of download_image (lines 58-68).                   *)
(***************************************************************************)

SchemeChars == LowerAlpha \o UpperAlpha \o Digits \o "+-."

SchemeCharSet == Chars(SchemeChars)

AlphaChars == Chars(LowerAlpha \o UpperAlpha)

\* urllib.parse.urlsplit: the scheme, when the text before the first ':'
\* is a scheme name.
HasScheme(url) ==
    LET i == Find(url, ":")
    IN  /\ i > 1
        /\ Ch(url, 1) \in AlphaChars
        /\ \A j \in 1..(i - 1) : Ch(url, j) \in SchemeCharSet

UrlScheme(url) == IF HasScheme(url) THEN Lower(SubSeq(url, 1, Find(url, ":") - 1)) ELSE ""

AfterScheme(url) == IF HasScheme(url) THEN From(url, Find(url, ":") + 1) ELSE url

\* Cut s before its first character out of stop.
UpTo(s, stop) == SubSeq(s, 1, RunLen(s, 1, stop))

\* After the network location: //netloc ends at the first of / ? #
AfterNetloc(rest) ==
    IF StartsAt(rest, 1, "//")
    THEN From(rest, 3 + RunLen(rest, 3, {"/", "?", "#"}))
    ELSE rest

UsesParams ==
    {"", "ftp", "hdl", "prospero", "http", "imap", "https", "shttp", "rtsp",
     "rtspu", "sip", "sips", "mms", "sftp", "tel"}

\* urllib.parse._splitparams: the path without the ;parameters of its
\* last segment.
SplitParams(path) ==
    LET slash == RFind(path, "/")
        start == IF slash = 0 THEN 1 ELSE slash
        semi == RunLen(path, start, {";"})
    IN  IF start + semi > Len(path) THEN path
        ELSE SubSeq(path, 1, start + semi - 1)

\* urlparse(url).path
UrlPath(url) ==
    LET noFragQuery == UpTo(UpTo(AfterNetloc(AfterScheme(url)), {"#"}), {"?"})
    IN  IF UrlScheme(url) \in UsesParams THEN SplitParams(noFragQuery) ELSE noFragQuery

\* os.path.basename(path): what follows the last '/' (on Windows also the
\* last '\', which none of the URLs here contains).
Basename(path) == From(path, RFind(path, "/") + 1)

\* hash(url): Python salts str hashes per process; the salt is the
\* model's hashSeed, the value is a signed integer.
RECURSIVE CharSum(_, _)
CharSum(s, i) ==
    IF i > Len(s) THEN 0
    ELSE i * (Find(SchemeChars \o ":/?#;=_", Ch(s, i)) + 1) + CharSum(s, i + 1)

PyHash(seed, url) == seed * CharSum(url, 1)

\* LocalFilename with a fault: the extension is not enforced (lines 67-68
\* left out).
LocalFilenameAsIs(seed, url) ==
    LET filename == Basename(UrlPath(url))
    IN  IF filename = "" \/ ~Contains(filename, ".")
        THEN "image_" \o IntToStr(PyHash(seed, url)) \o ".png"
        ELSE filename

\* Lines 59-68: the local file name of a fetched URL.
LocalFilename(seed, url) ==
    LET filename == Basename(UrlPath(url))
        named == IF filename = "" \/ ~Contains(filename, ".")
                 THEN "image_" \o IntToStr(PyHash(seed, url)) \o ".png"
                 ELSE filename
    IN  IF ~EndsWith(named, ".png") THEN named \o ".png" ELSE named

(***************************************************************************)
(* Values of the program.                                                  *)
(***************************************************************************)

\* A path of the file system: absent, or a file with its content.
Absent == [exists |-> FALSE, data |-> ""]
File(data) == [exists |-> TRUE, data |-> data]

\* The value download_image returns: None, or a file name.
None == [some |-> FALSE, name |-> ""]
Some(name) == [some |-> TRUE, name |-> name]

\* Python truthiness of such a value (`if local_filename`, `if filename`).
Truthy(v) == v.some /\ v.name # ""

\* response.content of a 2xx response for url.
ContentOf(url) == "bytes of " \o url

\* url_mapping is a dict: entries in insertion order; assigning to a key
\* that is present keeps its position.
DictKeys(d) == {d[i].url : i \in 1..Len(d)}

DictGet(d, url) == d[CHOOSE i \in 1..Len(d) : d[i].url = url].filename

\* DictSet with a fault: every assignment adds an entry, also for a key
\* that is present.
DictSetAppending(d, url, v) == Append(d, [url |-> url, filename |-> v])

DictSet(d, url, v) ==
    IF url \in DictKeys(d)
    THEN [i \in 1..Len(d) |-> IF d[i].url = url THEN [url |-> url, filename |-> v] ELSE d[i]]
    ELSE Append(d, [url |-> url, filename |-> v])

(***************************************************************************)
(* Inputs: the documents the program is run on. A document is a sequence   *)
(* of fragments; src is the value of the src attribute of the fragment's   *)
(* image tag ("" when the fragment has no image tag).                      *)
(***************************************************************************)

MaxTags == 2

Fragments ==
    { [text |-> "<img src=\"http://h/a.png\">", src |-> "http://h/a.png"],
      [text |-> "<img class='x' src='http://h/a.png?v=2' alt=\"\">", src |-> "http://h/a.png?v=2"],
      [text |-> "<img src=\"https://h/png/\">", src |-> "https://h/png/"],
      [text |-> "<img src=\"http://h/b.jpg\">", src |-> "http://h/b.jpg"],
      [text |-> "<img src=\"b.png\">", src |-> "b.png"],
      [text |-> "<img src=\"http://y/./downloaded_images/a.png\"><a href=\"http://y/http://h/a.png\">",
       src |-> "http://y/./downloaded_images/a.png"] }

UnitFragments ==
    { [text |-> "<img src=\"https://host/path/pic.png\">", src |-> "https://host/path/pic.png"],
      [text |-> "<img class='x' src='http://h/a.png?v=2' alt=\"\">", src |-> "http://h/a.png?v=2"],
      [text |-> "<img src=\"https://h/png/\">", src |-> "https://h/png/"],
      [text |-> "<img src=\"http://h/c.PNG\">", src |-> "http://h/c.PNG"],
      [text |-> "<img src=\"http://h/b.jpg\">", src |-> "http://h/b.jpg"],
      [text |-> "<img src=\"b.png\">", src |-> "b.png"],
      [text |-> "<img src=\"HTTP://h/i;png/get\" />", src |-> "HTTP://h/i;png/get"],
      [text |-> "<img src=\"x.gif\" data-src=\"http://h/d.png\">", src |-> "x.gif"],
      [text |-> "<script src=\"http://h/s.png\"></script>", src |-> ""] }

RECURSIVE Concat(_)
Concat(parts) == IF parts = << >> THEN "" ELSE Head(parts).text \o Concat(Tail(parts))

RECURSIVE SrcValues(_)
SrcValues(parts) ==
    IF parts = << >> THEN << >>
    ELSE (IF Head(parts).src = "" THEN << >> ELSE <<Head(parts).src>>) \o SrcValues(Tail(parts))

Documents(fragments) == UNION {[1..n -> fragments] : n \in 0..MaxTags}

HashSeeds == {-3, 7}

VARIABLES
    state,        \* position of main: Init, Extracted, Downloaded, Rewritten, Skipped, Done, Crashed
    html_file,    \* index.html
    backup_file,  \* index.html.backup
    images,       \* the files of downloaded_images/: file name -> bytes
    image_urls,   \* main's image_urls
    idx,          \* number of iterations of the download loop done
    url_mapping,  \* main's url_mapping
    hashSeed,     \* the process's str-hash salt
    original,     \* history: html_file at start
    tags,         \* history: the src values of the document's image tags
    log,          \* history: one record per call of download_image by main
    last,         \* history: the call of download_image made on its own
    io_error,     \* history: the document file operation that raised
    rewrites      \* history: calls of replace_image_urls

vars ==
    <<state, html_file, backup_file, images, image_urls, idx, url_mapping,
      hashSeed, original, tags, log, last, io_error, rewrites>>

NoCall ==
    [url |-> "", would |-> <<FALSE, FALSE, FALSE>>, tried |-> 0, disk |-> "none",
     fetched |-> FALSE, filename |-> None]

Start(position, fragments) ==
    /\ state = position
    /\ \E parts \in Documents(fragments) :
          /\ html_file = File(Concat(parts))
          /\ tags = SrcValues(parts)
    /\ backup_file = Absent
    /\ images = << >>
    /\ image_urls = << >>
    /\ idx = 0
    /\ url_mapping = << >>
    /\ hashSeed \in HashSeeds
    /\ original = html_file
    /\ log = << >>
    /\ last = NoCall
    /\ io_error = "none"
    /\ rewrites = 0

\* A run of main on a document, or with no document at the path.
Init ==
    \/ Start("Init", Fragments)
    \/ /\ state = "Init"
       /\ html_file = Absent
       /\ tags = << >>
       /\ backup_file = Absent
       /\ images = << >>
       /\ image_urls = << >>
       /\ idx = 0
       /\ url_mapping = << >>
       /\ hashSeed \in HashSeeds
       /\ original = html_file
       /\ log = << >>
       /\ last = NoCall
       /\ io_error = "none"
       /\ rewrites = 0

(***************************************************************************)
(* main, lines 123-153: existence check, read and extraction.              *)
(***************************************************************************)

\* Lines 136-138: no HTML file: report and return.
StartMissing ==
    /\ state = "Init"
    /\ ~html_file.exists
    /\ state' = "Done"
    /\ UNCHANGED <<html_file, backup_file, images, image_urls, idx, url_mapping,
                   hashSeed, original, tags, log, last, io_error, rewrites>>

\* Line 86: open/read raises; nothing catches it.
StartReadFails ==
    /\ state = "Init"
    /\ html_file.exists
    /\ io_error' = "read"
    /\ state' = "Crashed"
    /\ UNCHANGED <<html_file, backup_file, images, image_urls, idx, url_mapping,
                   hashSeed, original, tags, log, last, rewrites>>

\* Lines 145-153.
StartExtract ==
    /\ state = "Init"
    /\ html_file.exists
    /\ image_urls' = extract_image_urls(html_file.data)
    /\ state' = IF image_urls' = << >> THEN "Done" ELSE "Extracted"
    /\ UNCHANGED <<html_file, backup_file, images, idx, url_mapping,
                   hashSeed, original, tags, log, last, io_error, rewrites>>

(***************************************************************************)
(* download_image, lines 34-82.                                            *)
(***************************************************************************)

ssl_options ==
    << [verify |-> TRUE], [verify |-> FALSE], [verify |-> TRUE, timeout |-> 60] >>

\* Line 49: session.get(url, timeout=30, **ssl_config) names timeout
\* itself, so a configuration that has a timeout key passes the keyword
\* twice and the call raises TypeError before any request is made.
CallRaises(ssl_config) == "timeout" \in DOMAIN ssl_config

\* Lines 29-30: the session has transport adapters for these prefixes
\* only; a URL with another or no scheme raises in session.get.
Mounted == {"http://", "https://"}

\* Session.get_adapter: url.lower().startswith(prefix.lower())
HasAdapter(url) ==
    \E prefix \in Mounted :
        /\ Len(prefix) <= Len(url)
        /\ Lower(SubSeq(url, 1, Len(prefix))) = Lower(prefix)

\* Lines 49-50 for configuration i: the request is made and its response
\* is 2xx. would[i] is the environment: whether a request made under
\* configuration i gets a 2xx response (after the transport's retries).
AttemptOk(url, i, would) ==
    /\ ~CallRaises(ssl_options[i])
    /\ would[i]

\* The environment of one call: for each configuration, whether a request
\* made under it would succeed. None would for a URL without adapter.
Outcomes(url) ==
    IF HasAdapter(url) THEN [1..Len(ssl_options) -> BOOLEAN]
    ELSE {[i \in 1..Len(ssl_options) |-> FALSE]}

\* Lines 46-56: the configurations tried, in order, up to the first that
\* succeeds; 0 when the last one raises too.
FirstOk(url, would) ==
    IF \E i \in 1..Len(ssl_options) : AttemptOk(url, i, would)
    THEN CHOOSE i \in 1..Len(ssl_options) :
            /\ AttemptOk(url, i, would)
            /\ \A j \in 1..(i - 1) : ~AttemptOk(url, j, would)
    ELSE 0

Tried(url, would) ==
    IF FirstOk(url, would) = 0 THEN Len(ssl_options) ELSE FirstOk(url, would)

DiskOutcomes == {"ok", "open_fails", "write_fails"}

\* download_image with a fault: a failure of the file write is not noticed
\* and the file name is returned all the same.
download_image_unchecked_write(files, seed, url, would, disk) ==
    LET fetched == FirstOk(url, would) # 0
        filename == LocalFilename(seed, url)
    IN  IF ~fetched
        THEN [fetched |-> FALSE, disk |-> "none", filename |-> None, files |-> files]
        ELSE [fetched |-> TRUE, disk |-> disk, filename |-> Some(filename),
              files |-> IF disk = "open_fails" THEN files
                        ELSE (filename :> (IF disk = "ok" THEN ContentOf(url) ELSE "")) @@ files]

\* download_image(url, save_dir, session) on the directory content
\* files: the value returned and the directory afterwards. disk is the
\* environment: what opening and writing the file meets. Every exception,
\* of the fetch (lines 46-56) or of the file write (lines 73-74), is caught
\* by the handler of lines 79-82, which returns None. open(filepath, 'wb')
\* creates or truncates the file before the bytes are written.
download_image(files, seed, url, would, disk) ==
    LET fetched == FirstOk(url, would) # 0
        filename == LocalFilename(seed, url)
    IN  IF ~fetched
        THEN [fetched |-> FALSE, disk |-> "none", filename |-> None, files |-> files]
        ELSE IF disk = "open_fails"
        THEN [fetched |-> TRUE, disk |-> disk, filename |-> None, files |-> files]
        ELSE IF disk = "write_fails"
        THEN [fetched |-> TRUE, disk |-> disk, filename |-> None,
              files |-> (filename :> "") @@ files]
        ELSE [fetched |-> TRUE, disk |-> disk, filename |-> Some(filename),
              files |-> (filename :> ContentOf(url)) @@ files]

\* LoopState with a fault: the loop is left at the first failed download.
LoopStateBreakOnFailure(done, total, filename) ==
    IF done = total \/ ~filename.some THEN "Downloaded" ELSE "Extracted"

\* The for loop of lines 159-162 goes on to the next URL whatever
\* download_image returned, and ends after the last one.
LoopState(done, total, filename) ==
    IF done = total THEN "Downloaded" ELSE "Extracted"

\* One iteration of the loop of main, lines 159-162.
Download ==
    /\ state = "Extracted"
    /\ idx < Len(image_urls)
    /\ \E would \in Outcomes(image_urls[idx + 1]), disk \in DiskOutcomes :
          LET url == image_urls[idx + 1]
              r == download_image(images, hashSeed, url, would, disk)
          IN  /\ images' = r.files
              /\ url_mapping' = DictSet(url_mapping, url, r.filename)
              /\ log' = Append(log, [url |-> url, fetched |-> r.fetched,
                                     disk |-> r.disk, filename |-> r.filename])
              /\ state' = LoopState(idx + 1, Len(image_urls), r.filename)
    /\ idx' = idx + 1
    /\ UNCHANGED <<html_file, backup_file, image_urls, hashSeed, original, tags, last,
                   io_error, rewrites>>

(***************************************************************************)
(* replace_image_urls, lines 101-121, and the end of main, lines 164-178.  *)
(***************************************************************************)

\* success_count with a fault: every entry counts, failed ones too.
success_count_all(mapping) == Len(mapping)

\* Line 165.
success_count(mapping) == Cardinality({i \in 1..Len(mapping) : Truthy(mapping[i].filename)})

LocalPath(local_filename) == "./downloaded_images/" \o local_filename

\* Lines 107-111: one str.replace per entry, in the dict's order, each on
\* the result of the one before.
RECURSIVE ReplaceAll(_, _, _)
ReplaceAll(content, mapping, i) ==
    IF i > Len(mapping) THEN content
    ELSE ReplaceAll(
            IF Truthy(mapping[i].filename)
            THEN StrReplace(content, mapping[i].url, LocalPath(mapping[i].filename.name))
            ELSE content,
            mapping, i + 1)

\* Lines 173-176 with replace_image_urls run to its end.
Rewrite ==
    /\ state = "Downloaded"
    /\ success_count(url_mapping) > 0
    /\ backup_file' = File(html_file.data)
    /\ html_file' = File(ReplaceAll(html_file.data, url_mapping, 1))
    /\ rewrites' = rewrites + 1
    /\ state' = "Rewritten"
    /\ UNCHANGED <<images, image_urls, idx, url_mapping, hashSeed, original, tags,
                   log, last, io_error>>

\* Line 103 or line 116 raises (the read, or os.rename): no file has
\* changed, and nothing catches the exception.
RewriteFailsEarly ==
    /\ state = "Downloaded"
    /\ success_count(url_mapping) > 0
    /\ io_error' \in {"read", "rename"}
    /\ rewrites' = rewrites + 1
    /\ state' = "Crashed"
    /\ UNCHANGED <<html_file, backup_file, images, image_urls, idx, url_mapping,
                   hashSeed, original, tags, log, last>>

\* Line 118 or 119 raises after the rename: the original path is absent
\* (open failed) or empty (write failed).
RewriteFailsLate ==
    /\ state = "Downloaded"
    /\ success_count(url_mapping) > 0
    /\ backup_file' = File(html_file.data)
    /\ html_file' \in {Absent, File("")}
    /\ io_error' = "write"
    /\ rewrites' = rewrites + 1
    /\ state' = "Crashed"
    /\ UNCHANGED <<images, image_urls, idx, url_mapping, hashSeed, original, tags,
                   log, last>>

\* Lines 177-178.
Skip ==
    /\ state = "Downloaded"
    /\ success_count(url_mapping) = 0
    /\ state' = "Skipped"
    /\ UNCHANGED <<html_file, backup_file, images, image_urls, idx, url_mapping,
                   hashSeed, original, tags, log, last, io_error, rewrites>>

\* main returns.
Finish ==
    /\ state \in {"Rewritten", "Skipped"}
    /\ state' = "Done"
    /\ UNCHANGED <<html_file, backup_file, images, image_urls, idx, url_mapping,
                   hashSeed, original, tags, log, last, io_error, rewrites>>

Next ==
    \/ StartMissing
    \/ StartReadFails
    \/ StartExtract
    \/ Download
    \/ Rewrite
    \/ RewriteFailsEarly
    \/ RewriteFailsLate
    \/ Skip
    \/ Finish

Spec == Init /\ [][Next]_vars

(***************************************************************************)
(* The functions on their own: extract_image_urls applied to a document,   *)
(* then download_image applied once to one of the extracted URLs.          *)
(***************************************************************************)

UnitInit == Start("Unit", UnitFragments)

UnitExtract ==
    /\ state = "Unit"
    /\ image_urls' = extract_image_urls(html_file.data)
    /\ state' = "UnitExtracted"
    /\ UNCHANGED <<html_file, backup_file, images, idx, url_mapping,
                   hashSeed, original, tags, log, last, io_error, rewrites>>

UnitDownload ==
    /\ state = "UnitExtracted"
    /\ \E i \in 1..Len(image_urls) :
         \E would \in Outcomes(image_urls[i]), disk \in DiskOutcomes :
            LET url == image_urls[i]
                r == download_image(images, hashSeed, url, would, disk)
            IN  /\ images' = r.files
                /\ last' = [url |-> url, would |-> would, tried |-> Tried(url, would),
                            disk |-> r.disk, fetched |-> r.fetched,
                            filename |-> r.filename]
    /\ state' = "UnitDownloaded"
    /\ UNCHANGED <<html_file, backup_file, image_urls, idx, url_mapping,
                   hashSeed, original, tags, log, io_error, rewrites>>

UnitNext ==
    \/ UnitExtract
    \/ UnitDownload

UnitSpec == UnitInit /\ [][UnitNext]_vars

(***************************************************************************)
(* Properties.                                                             *)
(***************************************************************************)

\* The entries of a mapping whose file name is not None.
NonNull(mapping) == {i \in 1..Len(mapping) : mapping[i].filename.some}

Range(seq) == {seq[i] : i \in 1..Len(seq)}

DownloadPhaseOver == state \in {"Downloaded", "Rewritten", "Skipped", "Done", "Crashed"}

WriteFailures == {"open_fails", "write_fails"}

\* C1: the rewrite step runs at most once in a run, and only when some URL
\* of the mapping has a non-null file name; a run whose download phase had
\* no success ends with the document as it was at start and no backup file.
C1_RewriteOnlyAfterSuccess ==
    /\ rewrites <= 1
    /\ rewrites = 1 => NonNull(url_mapping) # {}
    /\ (state \in {"Skipped", "Done"} /\ NonNull(url_mapping) = {}) =>
          /\ html_file = original
          /\ ~backup_file.exists

C1_Witness ==
    /\ state = "Done"
    /\ Len(log) > 0
    /\ NonNull(url_mapping) = {}
    /\ rewrites = 0
    /\ html_file = original

\* C2: a URL whose fetch fails under every configuration is mapped to None
\* (until a later occurrence of the same URL is downloaded), and the loop
\* still calls download_image for every URL, in extraction order.
C2_FailureDoesNotAbort ==
    /\ \A i \in 1..Len(log) :
          /\ log[i].url = image_urls[i]
          /\ ~log[i].fetched => log[i].filename = None
          /\ (~log[i].fetched /\ \A j \in (i + 1)..Len(log) : log[j].url # log[i].url)
                => DictGet(url_mapping, log[i].url) = None
    /\ DownloadPhaseOver => Len(log) = Len(image_urls)

C2_Witness ==
    /\ state = "Downloaded"
    /\ Len(log) = 2
    /\ ~log[1].fetched
    /\ DictGet(url_mapping, log[1].url) = None
    /\ log[2].filename.some

\* C3: after the download phase the keys of the mapping are exactly the
\* distinct extracted URLs, one entry each, also when a URL was extracted
\* more than once.
C3_MappingKeys ==
    DownloadPhaseOver =>
        /\ DictKeys(url_mapping) = Range(image_urls)
        /\ Len(url_mapping) = Cardinality(Range(image_urls))

C3_Witness ==
    /\ state = "Downloaded"
    /\ Len(image_urls) = 2
    /\ image_urls[1] = image_urls[2]
    /\ Len(url_mapping) = 1

\* C4: after the rewrite of a document that had no backup, the backup file
\* holds the original content and the live document contains no URL that
\* the mapping records as downloaded.
C4_BackupAndNoRemoteUrlLeft ==
    state = "Rewritten" =>
        /\ original.exists
        /\ backup_file = original
        /\ \A i \in NonNull(url_mapping) : ~Contains(html_file.data, url_mapping[i].url)

\* C5: one fetch tries the configurations in order and stops at the first
\* that would succeed, so it succeeds when any of the three would, and it
\* fails only after all three have failed.
C5_FallbackOrder ==
    state = "UnitDownloaded" =>
        LET ok == {i \in 1..Len(ssl_options) : last.would[i]}
        IN  IF ok # {}
            THEN /\ last.fetched
                 /\ last.tried = CHOOSE i \in ok : \A j \in ok : i <= j
            ELSE /\ ~last.fetched
                 /\ last.tried = Len(ssl_options)

\* The last segment of the path of each URL of the unit documents, as a
\* URL parser gives it.
LastSegment(url) ==
    CASE url = "https://host/path/pic.png" -> "pic.png"
      [] url = "http://h/a.png?v=2" -> "a.png"
      [] url = "https://h/png/" -> ""
      [] url = "http://h/c.PNG" -> "c.PNG"
      [] url = "b.png" -> "b.png"
      [] url = "HTTP://h/i;png/get" -> "get"
      [] url = "http://h/d.png" -> "d.png"

\* image_<integer>.png
IsHashName(name) ==
    /\ StartsAt(name, 1, "image_")
    /\ EndsWith(name, ".png")
    /\ LET number == SubSeq(name, 7, Len(name) - 4)
           digits == IF StartsAt(number, 1, "-") THEN From(number, 2) ELSE number
       IN  /\ digits # ""
           /\ \A i \in 1..Len(digits) : Ch(digits, i) \in Chars(Digits)

\* C6: a download that returns a file name returns a non-empty one ending
\* in .png: the last segment of the URL path when that is non-empty and has
\* a dot (with .png appended unless it ends in .png), else image_<hash>.png.
C6_FilenameShape ==
    (state = "UnitDownloaded" /\ last.filename.some) =>
        LET name == last.filename.name
            segment == LastSegment(last.url)
        IN  /\ name # ""
            /\ EndsWith(name, ".png")
            /\ IF segment # "" /\ Contains(segment, ".")
               THEN name = IF EndsWith(segment, ".png") THEN segment ELSE segment \o ".png"
               ELSE IsHashName(name)

C6_Witness ==
    /\ state = "UnitDownloaded"
    /\ last.url = "https://host/path/pic.png"
    /\ last.filename = Some("pic.png")

\* The text with every occurrence of a URL of the mapping handled as its
\* own entry says, in one pass: replaced by the entry's local path when the
\* entry has a file name, left as it is when the entry is None. Where one
\* URL of the mapping is a prefix of another, the occurrence is one of the
\* longer URL.
RECURSIVE EveryOccurrenceReplaced(_, _, _)
EveryOccurrenceReplaced(s, i, mapping) ==
    IF i > Len(s) THEN ""
    ELSE LET hits == {k \in 1..Len(mapping) : StartsAt(s, i, mapping[k].url)}
             k == CHOOSE k \in hits :
                     \A j \in hits : Len(mapping[j].url) <= Len(mapping[k].url)
         IN  IF hits = {} THEN Ch(s, i) \o EveryOccurrenceReplaced(s, i + 1, mapping)
             ELSE (IF mapping[k].filename.some
                   THEN LocalPath(mapping[k].filename.name)
                   ELSE mapping[k].url)
                     \o EveryOccurrenceReplaced(s, i + Len(mapping[k].url), mapping)

\* C7: the rewritten text is the original with every occurrence of each
\* downloaded URL replaced by ./downloaded_images/<its file name> and the
\* URLs of failed entries left as they were, also when a downloaded URL is
\* a substring of another URL of the mapping.
C7_EveryOccurrenceReplaced ==
    state = "Rewritten" =>
        html_file.data = EveryOccurrenceReplaced(original.data, 1, url_mapping)

\* C8 as stated: a failure of a read, write or rename of the document ends
\* the run, a fetch failure is recorded as None, and a failure to write a
\* downloaded image file ends the run.
C8_ImageWriteFailureEndsRun ==
    /\ io_error # "none" => state = "Crashed"
    /\ \A i \in 1..Len(log) : ~log[i].fetched => log[i].filename = None
    /\ (\E i \in 1..Len(log) : log[i].disk \in WriteFailures) => state = "Crashed"

\* C8 as amended: a failure of a read, write or rename of the HTML
\* document ends the run, and nothing else does; a fetch failure and a
\* failure to write a downloaded image file are both recorded as None for
\* that URL, and the loop goes on to the URLs after it.
C8_OnlyDocumentFailuresEndRun ==
    /\ io_error # "none" <=> state = "Crashed"
    /\ \A i \in 1..Len(log) :
          (~log[i].fetched \/ log[i].disk \in WriteFailures) => log[i].filename = None
    /\ DownloadPhaseOver => Len(log) = Len(image_urls)

C8_Witness ==
    /\ state = "Done"
    /\ Len(log) = 2
    /\ log[1].disk \in WriteFailures
    /\ log[1].filename = None
    /\ log[2].filename.some

\* url.endswith('.png') or 'png' in the lower-cased url, on the src values.
RECURSIVE PngValues(_)
PngValues(values) ==
    IF values = << >> THEN << >>
    ELSE (IF EndsWith(Head(values), ".png") \/ Contains(Lower(Head(values)), "png")
          THEN <<Head(values)>> ELSE << >>) \o PngValues(Tail(values))

\* C9: extract_image_urls returns the src values of the document's image
\* tags that end with .png or contain png in any case, in document order,
\* duplicates kept.
C9_ExtractsSrcValues ==
    state = "UnitExtracted" => image_urls = PngValues(tags)

\* C10: after the download phase, the file named by each non-null entry of
\* the mapping holds the bytes fetched for that entry's URL.
C10_FileHoldsOwnBytes ==
    state = "Downloaded" =>
        \A i \in NonNull(url_mapping) :
            /\ url_mapping[i].filename.name \in DOMAIN images
            /\ images[url_mapping[i].filename.name] = ContentOf(url_mapping[i].url)

====
